---- MODULE Spec2Model ----
(***************************************************************************)
(* Model of the YouTube summarizer's result cache (src/main.py), its       *)
(* persistence helpers (src/utils.py, src/transcript_downloader.py) and    *)
(* its repair parser for model replies (src/utils.py).                     *)
(*                                                                         *)
(* Python values are tagged records: a dict is [k |-> "dict", v |-> f]     *)
(* with f a function on its keys, a str is [k |-> "str", v |-> s].         *)
(* A JSON document is a tree of [k |-> "object" | "string" | "null"].      *)
(***************************************************************************)
EXTENDS Integers, Sequences, FiniteSets, TLC

VARIABLES
    video_dict,   \* main.py: the module-level cache (global video_dict)
    file,         \* main.py: the document at json_path ("video_dict.json")
    pc,           \* main.py: position of the script run
    req,          \* main.py: video_id, output_language and the two prompt flags
    tee,          \* main.py: the running save_stream_to_json generator
    runs,         \* number of script runs started so far
    generated,    \* history: key path -> text of every completed stored generation
    served,       \* history: what the last cache hit read from the cache
    set_paths,    \* history: the key paths assigned in video_dict
    file_paths,   \* history: the key paths assigned in the persisted document
    transcript_dict,  \* transcript_downloader.py: process_videos' dict
    transcript_file,  \* transcript_downloader.py: the document at transcript_path
    backups,      \* utils.py: the .bak files beside it, timestamp -> content
    pv,           \* transcript_downloader.py: position of process_videos
    clock,        \* datetime.now()
    last_good,    \* history: the last content successfully written to transcript_path
    llm_output,   \* utils.py: the raw text handed to the parser
    parts,        \* history: the pieces llm_output was put together from
    save_path,    \* utils.py: whether clean_and_parse_json was given a save_path
    cp,           \* utils.py: position, json_like and data of the parser
    save_file,    \* utils.py: the document at save_path
    state_file,   \* new_video_check.py: the document at STATE_FILE
    state,        \* new_video_check.py: the state dict of the running command
    mon,          \* new_video_check.py: position of check_for_new_videos
    uploads,      \* the number of videos each channel has published
    unavailable,  \* the videos of each channel that have no transcript
    checks,       \* number of check commands started so far
    saved_analysed,  \* history: the ids analysed in a run whose state was saved
    saved_skipped    \* history: the ids skipped for their transcript in such a run

mainVars == <<video_dict, file, pc, req, tee, runs, generated, served,
              set_paths, file_paths>>
pvVars == <<transcript_dict, transcript_file, backups, pv, clock, last_good>>
parseVars == <<llm_output, parts, save_path, cp, save_file>>
monVars == <<state_file, state, mon, uploads, unavailable, checks,
             saved_analysed, saved_skipped>>
vars == <<mainVars, pvVars, parseVars, monVars>>

----------------------------------------------------------------------------
(* Bounds of the model *)

MaxRuns == 2
MaxFrags == 2
MaxPolls == 2
MaxFeed == 2
MaxUploads == 1
MaxChecks == 2

VideoIds == {"v1", "v2"}
Languages == {"English", "German"}
Frags == {"Hel", "lo"}
BackendReplies == {<<"Hel", "lo">>, <<>>}
Transcripts == {"some transcript"}

----------------------------------------------------------------------------
(* Python and JSON values *)

D(f) == [k |-> "dict", v |-> f]
S(s) == [k |-> "str", v |-> s]
EmptyMap == <<>>
IsDict(x) == x.k = "dict"

Absent == [k |-> "absent"]
Doc(j) == [k |-> "doc", v |-> j]
Truncated == [k |-> "truncated"]

RECURSIVE JsonDump(_)
JsonDump(x) ==
    IF x.k = "dict"
    THEN [k |-> "object", v |-> [key \in DOMAIN x.v |-> JsonDump(x.v[key])]]
    ELSE [k |-> "string", v |-> x.v]

None == [k |-> "none"]
Datetime(t) == [k |-> "datetime", v |-> t]

(* str(datetime) *)
StrOfDatetime(t) == "2025-01-01 00:00:0" \o ToString(t)

(* Variant: default=str is applied to None as well *)
RECURSIVE JsonDumpDefaultStrNone(_)
JsonDumpDefaultStrNone(x) ==
    CASE x.k = "dict" ->
           [k |-> "object",
            v |-> [key \in DOMAIN x.v |-> JsonDumpDefaultStrNone(x.v[key])]]
      [] x.k = "str" -> [k |-> "string", v |-> x.v]
      [] x.k = "none" -> [k |-> "string", v |-> "None"]
      [] x.k = "datetime" -> [k |-> "string", v |-> StrOfDatetime(x.v)]

(* json.dump(..., default=str): what json cannot serialize is written as   *)
(* the string str() gives for it.                                          *)
RECURSIVE JsonDumpDefaultStr(_)
JsonDumpDefaultStr(x) ==
    CASE x.k = "dict" ->
           [k |-> "object",
            v |-> [key \in DOMAIN x.v |-> JsonDumpDefaultStr(x.v[key])]]
      [] x.k = "str" -> [k |-> "string", v |-> x.v]
      [] x.k = "none" -> [k |-> "null"]
      [] x.k = "datetime" -> [k |-> "string", v |-> StrOfDatetime(x.v)]

RECURSIVE JsonLoad(_)
JsonLoad(j) ==
    CASE j.k = "object" -> D([key \in DOMAIN j.v |-> JsonLoad(j.v[key])])
      [] j.k = "string" -> S(j.v)
      [] j.k = "null" -> None

(* open(path, "w") + json.dump: the outcome of the write is the            *)
(* environment's.  "open_fail": open raises, the file is untouched.        *)
(* "write_fail": the file was truncated by open and the dump did not       *)
(* complete.                                                               *)
IoOutcomes == {"ok", "open_fail", "write_fail"}

WriteJson(old, dict, outcome) ==
    CASE outcome = "ok" -> Doc(JsonDump(dict))
      [] outcome = "open_fail" -> old
      [] outcome = "write_fail" -> Truncated

----------------------------------------------------------------------------
(* main.py helpers *)

(* Variant: a value that is not a dict counts as found *)
RECURSIVE KeyExistsInScalarFound(_, _)
KeyExistsInScalarFound(keys, d) ==
    IF keys = <<>> THEN TRUE
    ELSE IF ~IsDict(d) THEN TRUE
    ELSE IF Head(keys) \in DOMAIN d.v
         THEN KeyExistsInScalarFound(Tail(keys), d.v[Head(keys)])
         ELSE FALSE

RECURSIVE KeyExistsIn(_, _)
KeyExistsIn(keys, d) ==
    IF keys = <<>> THEN TRUE
    ELSE IF IsDict(d) /\ Head(keys) \in DOMAIN d.v
         THEN KeyExistsIn(Tail(keys), d.v[Head(keys)])
         ELSE FALSE

key_exists(keys) == KeyExistsIn(keys, video_dict)

(* video_dict.get(video_id)[target_key].get(language), lines 240 and 278 *)
RECURSIVE GetIn(_, _)
GetIn(keys, d) ==
    IF keys = <<>> THEN d ELSE GetIn(Tail(keys), d.v[Head(keys)])

(* Variant: " ".join(collected) *)
RECURSIVE JoinWithSpace(_)
JoinWithSpace(chunks) ==
    IF chunks = <<>> THEN ""
    ELSE IF Tail(chunks) = <<>> THEN Head(chunks)
    ELSE Head(chunks) \o " " \o JoinWithSpace(Tail(chunks))

RECURSIVE Join(_)
Join(chunks) ==
    IF chunks = <<>> THEN "" ELSE Head(chunks) \o Join(Tail(chunks))

(* dict.setdefault(key, {}) *)
SetDefault(d, key) ==
    IF key \in DOMAIN d.v THEN d ELSE D((key :> D(EmptyMap)) @@ d.v)

(* d[key] = value *)
SetItem(d, key, value) == D((key :> value) @@ d.v)

(* Lines 162-165 of save_stream_to_json: the new video_dict, or a raise     *)
(* when the value found at video_id or at target_key is not a dict (a str   *)
(* has no setdefault and no item assignment).                               *)
CommitRaises(dict, video_id, target_key) ==
    /\ video_id \in DOMAIN dict.v
    /\ \/ ~IsDict(dict.v[video_id])
       \/ /\ target_key \in DOMAIN dict.v[video_id].v
          /\ ~IsDict(dict.v[video_id].v[target_key])

(* Variant: target_dict.setdefault(language, result) *)
CommitKeepsFirst(dict, video_id, target_key, language, result) ==
    LET d1 == SetDefault(dict, video_id)
        video_entry == SetDefault(d1.v[video_id], target_key)
        old == video_entry.v[target_key]
        target_dict == IF language \in DOMAIN old.v THEN old
                       ELSE SetItem(old, language, S(result))
    IN  SetItem(d1, video_id, SetItem(video_entry, target_key, target_dict))

(* Variant: video_entry[target_key] = {language: result} *)
CommitReplacesCategory(dict, video_id, target_key, language, result) ==
    LET d1 == SetDefault(dict, video_id)
    IN  SetItem(d1, video_id,
                SetItem(d1.v[video_id], target_key,
                        D(language :> S(result))))

Commit(dict, video_id, target_key, language, result) ==
    LET d1 == SetDefault(dict, video_id)
        video_entry == SetDefault(d1.v[video_id], target_key)
        target_dict == SetItem(video_entry.v[target_key], language, S(result))
    IN  SetItem(d1, video_id, SetItem(video_entry, target_key, target_dict))

(* utils.py, save_stream_to_json, lines 48-51: the function of the same     *)
(* name that takes the dictionary as an argument and has no target_key;     *)
(* it stores the text at dictionary[video_id][language].                    *)
CommitByLanguage(dictionary, video_id, language, result) ==
    LET d1 == SetDefault(dictionary, video_id)
    IN  SetItem(d1, video_id, SetItem(d1.v[video_id], language, S(result)))

(* The key paths of the document after a write of a dict with the paths ps *)
WrittenPaths(old, ps, outcome) ==
    CASE outcome = "ok" -> ps
      [] outcome = "open_fail" -> old
      [] outcome = "write_fail" -> {}

(* A fresh save_stream_to_json generator; dict0 and file0 record the cache  *)
(* and the document as they were when it was created.                       *)
NewTee(stream, language, video_id, store, target_key, next) ==
    [state |-> "running", src |-> stream, rest |-> stream,
     collected |-> <<>>, yielded |-> <<>>,
     video_id |-> video_id, target_key |-> target_key,
     language |-> language, store |-> store,
     next |-> next, dict0 |-> video_dict, file0 |-> file]

NoPoll == [pc |-> "idle", polls |-> 0, saved |-> "none", error |-> "none"]

(* The downloader's part of the state while only main.py runs *)
PvIdle ==
    /\ transcript_dict = D(EmptyMap)
    /\ transcript_file = Absent
    /\ backups = <<>>
    /\ pv = NoPoll
    /\ clock = 0
    /\ last_good = Absent

NoParse == [fn |-> "none", pc |-> "idle", json_like |-> <<>>, data |-> None,
            error |-> "none"]
NoParts == [prefix |-> <<>>, payload |-> <<>>, suffix |-> <<>>]
NoFile == [k |-> "absent"]

(* The parser's part of the state while it is not called *)
ParseIdle ==
    /\ llm_output = <<>>
    /\ parts = NoParts
    /\ save_path = FALSE
    /\ cp = NoParse
    /\ save_file = NoFile

(* The monitor's part of the state while it is not used *)
MonIdle ==
    /\ state_file = NoFile
    /\ state = <<>>
    /\ mon = <<>>
    /\ uploads = <<>>
    /\ unavailable = <<>>
    /\ checks = 0
    /\ saved_analysed = <<>>
    /\ saved_skipped = <<>>

NoTee == [state |-> "none"]
NoReq == [state |-> "none"]
NoServed == [state |-> "none"]

----------------------------------------------------------------------------
(* The interactive script of main.py: one run of the script per button      *)
(* press, from the load of video_dict to the end of the last tab.           *)

FragSeqs == UNION {[1..n -> Frags] : n \in 0..MaxFrags}

load_video_dict(f) ==
    IF f = Absent THEN D(EmptyMap) ELSE JsonLoad(f.v)

Init ==
    /\ video_dict = D(EmptyMap)
    /\ file = Absent
    /\ pc = "idle"
    /\ req = NoReq
    /\ tee = NoTee
    /\ runs = 0
    /\ generated = <<>>
    /\ served = NoServed
    /\ set_paths = {}
    /\ file_paths = {}
    /\ PvIdle
    /\ ParseIdle
    /\ MonIdle

(* Lines 52 and 184-216: the script starts, loads the document (creating an *)
(* empty one when there is none) and reads the URL, the language and the    *)
(* two prompt templates. A truncated document makes json.load raise.        *)
StartRun(video_id, output_language, store_summary, store_stock) ==
    /\ pc = "idle"
    /\ runs < MaxRuns
    /\ file # Truncated
    /\ video_dict' = load_video_dict(file)
    /\ file' = IF file = Absent THEN Doc(JsonDump(D(EmptyMap))) ELSE file
    /\ req' = [state |-> "set", video_id |-> video_id,
               output_language |-> output_language,
               store_summary |-> store_summary, store_stock |-> store_stock]
    /\ pc' = "button"
    /\ tee' = NoTee
    /\ served' = NoServed
    /\ runs' = runs + 1
    /\ set_paths' = file_paths
    /\ UNCHANGED <<generated, file_paths>>
    /\ UNCHANGED <<pvVars, parseVars, monVars>>

(* Lines 218-233: the transcript is taken from the cache or fetched and     *)
(* stored with empty summary and stock_sentiment mappings.                  *)
Summarize ==
    /\ pc = "button"
    /\ IF key_exists(<<req.video_id>>)
       THEN /\ pc' = "tab_summary"
            /\ UNCHANGED <<video_dict, file, set_paths, file_paths>>
       ELSE \/ \E trans \in Transcripts, io \in IoOutcomes :
                 /\ video_dict' = SetItem(video_dict, req.video_id,
                        D(("transcript" :> S(trans))
                          @@ ("summary" :> D(EmptyMap))
                          @@ ("stock_sentiment" :> D(EmptyMap))))
                 /\ file' = WriteJson(file, video_dict', io)
                 /\ pc' = IF io = "ok" THEN "tab_summary" ELSE "finished"
                 /\ set_paths' = set_paths \cup
                        {<<req.video_id>>, <<req.video_id, "transcript">>,
                         <<req.video_id, "summary">>,
                         <<req.video_id, "stock_sentiment">>}
                 /\ file_paths' = WrittenPaths(file_paths, set_paths', io)
            \/ /\ pc' = "finished"      \* get_yt_transcript stops the script or raises
               /\ UNCHANGED <<video_dict, file, set_paths, file_paths>>
    /\ UNCHANGED <<req, tee, runs, generated, served>>
    /\ UNCHANGED <<pvVars, parseVars, monVars>>

(* Variant: the tab never looks into the cache *)
TabNoCacheCheck(target_key, store, next) ==
    \E src \in BackendReplies :
        /\ tee' = NewTee(src, req.output_language, req.video_id, store,
                         target_key, next)
        /\ pc' = "stream"
        /\ UNCHANGED served

(* my_generator, lines 170-174: the words of text.split(" "), each with a   *)
(* space after it. The texts of the model hold no space, so that the split  *)
(* gives one word, the text itself (the empty text gives one empty word).   *)
my_generator(text) == <<text \o " ">>

(* Lines 236-270 and 275-303: one tab. A cached value goes to the page      *)
(* through st.write_stream(my_generator(text)); otherwise the backend       *)
(* stream is wrapped in save_stream_to_json.                                *)
Tab(target_key, store, next) ==
    LET path == <<req.video_id, target_key, req.output_language>> IN
    IF store /\ key_exists(path)
    THEN /\ served' = [state |-> "hit", path |-> path,
                       text |-> GetIn(path, video_dict).v,
                       rest |-> my_generator(GetIn(path, video_dict).v),
                       shown |-> <<>>, next |-> next]
         /\ pc' = "show"
         /\ UNCHANGED tee
    ELSE \/ /\ ~store              \* a custom template without the placeholders:
            /\ pc' = "finished"        \* KeyError, st.stop()
            /\ UNCHANGED <<tee, served>>
         \/ \E src \in BackendReplies :
              /\ tee' = NewTee(src, req.output_language, req.video_id, store,
                               target_key, next)
              /\ pc' = "stream"
              /\ UNCHANGED served

tab_summary ==
    /\ pc = "tab_summary"
    /\ Tab("summary", req.store_summary, "tab_stocks")
    /\ UNCHANGED <<video_dict, file, req, runs, generated, set_paths, file_paths>>
    /\ UNCHANGED <<pvVars, parseVars, monVars>>

tab_stocks ==
    /\ pc = "tab_stocks"
    /\ Tab("stock_sentiment", req.store_stock, "finished")
    /\ UNCHANGED <<video_dict, file, req, runs, generated, set_paths, file_paths>>
    /\ UNCHANGED <<pvVars, parseVars, monVars>>

(* Lines 241 and 279 with my_generator, lines 172-174: st.write_stream      *)
(* pulls one word of the cached text.                                       *)
ShowNext ==
    /\ pc = "show"
    /\ served.rest # <<>>
    /\ served' = [served EXCEPT !.shown = Append(@, Head(served.rest)),
                                !.rest = Tail(@)]
    /\ UNCHANGED <<video_dict, file, pc, req, tee, runs, generated,
                   set_paths, file_paths>>
    /\ UNCHANGED <<pvVars, parseVars, monVars>>

(* The pull that finds my_generator exhausted: the script goes on after the *)
(* tab.                                                                     *)
ShowExhausted ==
    /\ pc = "show"
    /\ served.rest = <<>>
    /\ pc' = served.next
    /\ UNCHANGED <<video_dict, file, req, tee, runs, generated, served,
                   set_paths, file_paths>>
    /\ UNCHANGED <<pvVars, parseVars, monVars>>

(* The page is left while the cached text is shown: the run ends there.     *)
ShowAbandon ==
    /\ pc = "show"
    /\ pc' = "finished"
    /\ UNCHANGED <<video_dict, file, req, tee, runs, generated, served,
                   set_paths, file_paths>>
    /\ UNCHANGED <<pvVars, parseVars, monVars>>

(* save_stream_to_json, lines 153-155: the consumer pulls one fragment.     *)
TeeNext ==
    /\ pc = "stream"
    /\ tee.state = "running"
    /\ tee.rest # <<>>
    /\ tee' = [tee EXCEPT !.collected = Append(@, Head(tee.rest)),
                          !.yielded = Append(@, Head(tee.rest)),
                          !.rest = Tail(@)]
    /\ UNCHANGED <<video_dict, file, pc, req, runs, generated, served,
                   set_paths, file_paths>>
    /\ UNCHANGED <<pvVars, parseVars, monVars>>

(* save_stream_to_json, lines 157-168: the pull that finds the upstream     *)
(* exhausted joins the buffer and, with store set, commits and persists.    *)
Exhaust(store) ==
    LET result == Join(tee.collected)
        path == <<tee.video_id, tee.target_key, tee.language>>
    IN
    IF ~store
    THEN /\ tee' = [tee EXCEPT !.state = "done"]
         /\ pc' = tee.next
         /\ UNCHANGED <<video_dict, file, generated, set_paths, file_paths>>
    ELSE IF CommitRaises(video_dict, tee.video_id, tee.target_key)
    THEN /\ tee' = [tee EXCEPT !.state = "raised"]
         /\ pc' = "finished"
         /\ UNCHANGED <<video_dict, file, generated, set_paths, file_paths>>
    ELSE \E io \in IoOutcomes :
         /\ video_dict' = Commit(video_dict, tee.video_id, tee.target_key,
                                 tee.language, result)
         /\ file' = WriteJson(file, video_dict', io)
         /\ set_paths' = set_paths \cup {SubSeq(path, 1, n) : n \in 1..3}
         /\ file_paths' = WrittenPaths(file_paths, set_paths', io)
         /\ IF io = "ok"
            THEN /\ tee' = [tee EXCEPT !.state = "done"]
                 /\ pc' = tee.next
                 /\ generated' = (path :> result) @@ generated
            ELSE /\ tee' = [tee EXCEPT !.state = "ioerror"]
                 /\ pc' = "finished"
                 /\ UNCHANGED generated

(* Variant: the store flag is not looked at *)
TeeExhaustedIgnoresStore ==
    /\ pc = "stream"
    /\ tee.state = "running"
    /\ tee.rest = <<>>
    /\ Exhaust(TRUE)
    /\ UNCHANGED <<req, runs, served>>
    /\ UNCHANGED <<pvVars, parseVars, monVars>>

TeeExhausted ==
    /\ pc = "stream"
    /\ tee.state = "running"
    /\ tee.rest = <<>>
    /\ Exhaust(tee.store)
    /\ UNCHANGED <<req, runs, served>>
    /\ UNCHANGED <<pvVars, parseVars, monVars>>

(* Variant: the commit sits in a finally block and runs on close as well *)
TeeAbandonCommits ==
    /\ pc = "stream"
    /\ tee.state = "running"
    /\ tee' = [tee EXCEPT !.state = "abandoned"]
    /\ pc' = "finished"
    /\ IF tee.store /\ ~CommitRaises(video_dict, tee.video_id, tee.target_key)
       THEN /\ video_dict' = Commit(video_dict, tee.video_id, tee.target_key,
                                    tee.language, Join(tee.collected))
            /\ file' = WriteJson(file, video_dict', "ok")
       ELSE UNCHANGED <<video_dict, file>>
    /\ UNCHANGED <<req, runs, generated, served, set_paths, file_paths>>
    /\ UNCHANGED <<pvVars, parseVars, monVars>>

(* The consumer stops pulling: the generator is closed at its yield.        *)
TeeAbandon ==
    /\ pc = "stream"
    /\ tee.state = "running"
    /\ tee' = [tee EXCEPT !.state = "abandoned"]
    /\ pc' = "finished"
    /\ UNCHANGED <<video_dict, file, req, runs, generated, served,
                   set_paths, file_paths>>
    /\ UNCHANGED <<pvVars, parseVars, monVars>>

(* The upstream raises inside the for loop. A genai ClientError is caught   *)
(* by the tab (lines 269-270, 302-303) and the script goes on; any other    *)
(* error ends the run.                                                      *)
TeeUpstreamError ==
    /\ pc = "stream"
    /\ tee.state = "running"
    /\ \E client_error \in BOOLEAN :
         pc' = IF client_error THEN tee.next ELSE "finished"
    /\ tee' = [tee EXCEPT !.state = "failed"]
    /\ UNCHANGED <<video_dict, file, req, runs, generated, served,
                   set_paths, file_paths>>
    /\ UNCHANGED <<pvVars, parseVars, monVars>>

(* The script run is over (its last tab is done, it was stopped or it      *)
(* raised): its request and its generator are gone.                         *)
EndRun ==
    /\ pc = "finished"
    /\ pc' = "idle"
    /\ req' = NoReq
    /\ tee' = NoTee
    /\ served' = NoServed
    /\ UNCHANGED <<video_dict, file, runs, generated, set_paths, file_paths>>
    /\ UNCHANGED <<pvVars, parseVars, monVars>>

Next ==
    \/ \E v \in VideoIds, l \in Languages, ss \in BOOLEAN, st \in BOOLEAN :
          StartRun(v, l, ss, st)
    \/ EndRun
    \/ Summarize
    \/ tab_summary
    \/ tab_stocks
    \/ ShowNext
    \/ ShowExhausted
    \/ ShowAbandon
    \/ TeeNext
    \/ TeeExhausted
    \/ TeeAbandon
    \/ TeeUpstreamError

Spec == Init /\ [][Next]_vars

----------------------------------------------------------------------------
(* save_stream_to_json as a function: one call on a cache the script can    *)
(* have built, with any stream of at most MaxFrags fragments and any        *)
(* video_id, target_key, language and store flag.                           *)

Categories == {"transcript", "summary", "stock_sentiment"}

LangMaps == {EmptyMap, ("English" :> S("old"))}

VideoRecords ==
    {D(("transcript" :> S(t)) @@ ("summary" :> D(m1))
       @@ ("stock_sentiment" :> D(m2))) :
        t \in Transcripts, m1 \in LangMaps, m2 \in LangMaps}

FreshRecord ==
    D(("transcript" :> S("some transcript")) @@ ("summary" :> D(EmptyMap))
      @@ ("stock_sentiment" :> D(EmptyMap)))

TeeStores ==
    {D(EmptyMap)}
    \cup {D(("v1" :> r)) : r \in VideoRecords}
    \cup {D(("v1" :> r) @@ ("v2" :> FreshRecord)) : r \in VideoRecords}

InitTee ==
    /\ video_dict \in TeeStores
    /\ file = Doc(JsonDump(video_dict))
    /\ pc = "call"
    /\ req = NoReq
    /\ tee = NoTee
    /\ runs = 0
    /\ generated = <<>>
    /\ served = NoServed
    /\ set_paths = {}
    /\ file_paths = {}
    /\ PvIdle
    /\ ParseIdle
    /\ MonIdle

save_stream_to_json(stream, language, video_id, store, target_key) ==
    /\ pc = "call"
    /\ tee' = NewTee(stream, language, video_id, store, target_key, "finished")
    /\ pc' = "stream"
    /\ UNCHANGED <<video_dict, file, req, runs, generated, served,
                   set_paths, file_paths>>
    /\ UNCHANGED <<pvVars, parseVars, monVars>>

NextTee ==
    \/ \E stream \in FragSeqs, l \in Languages, v \in VideoIds,
          store \in BOOLEAN, key \in Categories :
          save_stream_to_json(stream, l, v, store, key)
    \/ TeeNext
    \/ TeeExhausted
    \/ TeeAbandon
    \/ TeeUpstreamError

SpecTee == InitTee /\ [][NextTee]_vars

----------------------------------------------------------------------------
(* transcript_downloader.py: process_videos, with load_json_file and        *)
(* save_to_json of utils.py.                                                *)

Videos == {"a", "b"}
SourceNames == {"Alles auf Aktien"}
FetcherKinds == {"channel", "playlist"}
Feeds == UNION {[1..n -> Videos] : n \in 0..MaxFeed}

(* One item of fetch_latest_videos_from_channel (description None) or of    *)
(* fetch_latest_videos_from_playlist.                                       *)
VideoOf(id, kind) ==
    ("id" :> S(id))
    @@ ("title" :> S("title of " \o id))
    @@ ("date" :> S("2025-01-01T00:00:00Z"))
    @@ ("url" :> S("https://www.youtube.com/watch?v=" \o id))
    @@ ("description" :> IF kind = "channel" THEN None
                         ELSE S("description of " \o id))

(* Lines 100-103: {"name": ..., **video, "processed_on": ..., "transcript"} *)
VideoEntry(source_name, video, now, transcript) ==
    D(("transcript" :> S(transcript))
      @@ ("processed_on" :> Datetime(now))
      @@ video
      @@ ("name" :> S(source_name)))

load_json_file(f) ==
    IF f = Absent THEN D(EmptyMap) ELSE JsonLoad(f.v)

(* save_to_json: the document, the backups and the error that leaves the    *)
(* function. When open raises, the document is untouched; when json.dump    *)
(* raises, open has truncated it and a part of the new text is in it. The   *)
(* handler copies what is at json_path now to the backup and re-raises; a   *)
(* copy of a path that does not exist raises FileNotFoundError instead.     *)
save_to_json(dict, f, bks, now, outcome) ==
    CASE outcome = "ok" ->
           [file |-> Doc(JsonDumpDefaultStr(dict)), backups |-> bks,
            error |-> "none"]
      [] outcome = "open_fail" ->
           IF f = Absent
           THEN [file |-> f, backups |-> bks, error |-> "copy_error"]
           ELSE [file |-> f, backups |-> (now :> f) @@ bks,
                 error |-> "original"]
      [] outcome = "write_fail" ->
           [file |-> Truncated, backups |-> (now :> Truncated) @@ bks,
            error |-> "original"]

InitPersist ==
    /\ video_dict = D(EmptyMap)
    /\ file = Absent
    /\ pc = "idle"
    /\ req = NoReq
    /\ tee = NoTee
    /\ runs = 0
    /\ generated = <<>>
    /\ served = NoServed
    /\ set_paths = {}
    /\ file_paths = {}
    /\ PvIdle
    /\ ParseIdle
    /\ MonIdle

(* Lines 83-84: load the document (an empty one is created when there is    *)
(* none) and fetch the list of the latest videos.                           *)
process_videos(source_name, kind, feed) ==
    /\ pv.pc \in {"idle", "raised"}
    /\ pv.polls < MaxPolls
    /\ transcript_file # Truncated          \* json.load raises on it
    /\ transcript_dict' = load_json_file(transcript_file)
    /\ transcript_file' =
          IF transcript_file = Absent THEN Doc(JsonDump(D(EmptyMap)))
          ELSE transcript_file
    /\ last_good' = transcript_file'
    /\ pv' = [pc |-> "loop", polls |-> pv.polls + 1, saved |-> "none",
              error |-> "none", name |-> source_name, kind |-> kind,
              rest |-> feed]
    /\ UNCHANGED <<backups, clock>>
    /\ UNCHANGED <<mainVars, parseVars, monVars>>

(* Lines 86-105: one turn of the loop over latest_videos. *)
ProcessVideo ==
    /\ pv.pc = "loop"
    /\ pv.rest # <<>>
    /\ clock' = clock + 1
    /\ LET video_id == Head(pv.rest) IN
       IF video_id \in DOMAIN transcript_dict.v
       THEN /\ pv' = [pv EXCEPT !.rest = Tail(@), !.saved = "none"]
            /\ UNCHANGED <<transcript_dict, transcript_file, backups, last_good>>
       ELSE \/ /\ pv' = [pv EXCEPT !.rest = Tail(@), !.saved = "none"]
               /\ UNCHANGED <<transcript_dict, transcript_file, backups, last_good>>
            \/ /\ pv' = [pv EXCEPT !.pc = "raised", !.saved = "none",
                                   !.error = "fetch"]
               /\ UNCHANGED <<transcript_dict, transcript_file, backups, last_good>>
            \/ \E transcript \in Transcripts, io \in IoOutcomes :
                 LET entry == VideoEntry(pv.name, VideoOf(video_id, pv.kind),
                                         clock', transcript)
                     dict == SetItem(transcript_dict, video_id, entry)
                     r == save_to_json(dict, transcript_file, backups,
                                       clock', io)
                 IN  /\ transcript_dict' = dict
                     /\ transcript_file' = r.file
                     /\ backups' = r.backups
                     /\ IF r.error = "none"
                        THEN /\ pv' = [pv EXCEPT !.rest = Tail(@), !.saved = "ok"]
                             /\ last_good' = r.file
                        ELSE /\ pv' = [pv EXCEPT !.pc = "raised",
                                          !.saved = "failed", !.error = r.error]
                             /\ UNCHANGED last_good
    /\ UNCHANGED <<mainVars, parseVars, monVars>>

(* Line 107: the loop is over. *)
FinishVideos ==
    /\ pv.pc = "loop"
    /\ pv.rest = <<>>
    /\ pv' = [pv EXCEPT !.pc = "idle", !.saved = "none"]
    /\ UNCHANGED <<transcript_dict, transcript_file, backups, clock, last_good>>
    /\ UNCHANGED <<mainVars, parseVars, monVars>>

NextPersist ==
    \/ \E n \in SourceNames, kind \in FetcherKinds, feed \in Feeds :
          process_videos(n, kind, feed)
    \/ ProcessVideo
    \/ FinishVideos

SpecPersist == InitPersist /\ [][NextPersist]_vars

----------------------------------------------------------------------------
(* utils.py: the repair parser for the replies of the generation backend,   *)
(* clean_and_parse_json, and the fence-stripping _extract_json_payload.     *)
(* A text is a sequence of characters, each a one-character string; the     *)
(* grave accent of a code fence is the token BACKTICK.                      *)

BACKTICK == "bt"
Fence == <<BACKTICK, BACKTICK, BACKTICK>>

(* json.decoder.WHITESPACE *)
JsonWhitespace == {" ", "\t", "\n", "\r"}
(* The characters of the alphabet that [\x00-\x1F\x7F] matches *)
ControlChars == {"\t", "\n", "\r", "\f"}
(* The characters of the alphabet that \s matches and str.strip() strips *)
SpaceChars == {" ", "\t", "\n", "\r", "\f"}
Digits == {"0", "1", "2", "3", "4", "5", "6", "7", "8", "9"}
DigitVal(c) ==
    CASE c = "0" -> 0 [] c = "1" -> 1 [] c = "2" -> 2 [] c = "3" -> 3
      [] c = "4" -> 4 [] c = "5" -> 5 [] c = "6" -> 6 [] c = "7" -> 7
      [] c = "8" -> 8 [] c = "9" -> 9

(* Python values json.loads builds *)
PyList(seq) == [k |-> "list", v |-> seq]
PyInt(n) == [k |-> "int", v |-> n]
PyBool(b) == [k |-> "bool", v |-> b]
PyFloat(name) == [k |-> "float", v |-> name]

(* The outcome of a scan: a value and the position after it, or a raise *)
Fail == [ok |-> FALSE]
Ok(val, pos) == [ok |-> TRUE, val |-> val, pos |-> pos]

StartsWithAt(s, i, lit) ==
    /\ i + Len(lit) - 1 <= Len(s)
    /\ SubSeq(s, i, i + Len(lit) - 1) = lit

RECURSIVE SkipWs(_, _)
SkipWs(s, i) ==
    IF i <= Len(s) /\ s[i] \in JsonWhitespace THEN SkipWs(s, i + 1) ELSE i

(* json.decoder.py_scanstring in strict mode, from the position after the   *)
(* opening quote: a control character in a string is an error. The escapes  *)
(* \b and \uXXXX denote characters outside the alphabet.                    *)
Escapes ==
    ("\"" :> "\"") @@ ("\\" :> "\\") @@ ("/" :> "/") @@ ("f" :> "\f")
    @@ ("n" :> "\n") @@ ("r" :> "\r") @@ ("t" :> "\t")

RECURSIVE ScanString(_, _, _)
ScanString(s, i, acc) ==
    IF i > Len(s) THEN Fail
    ELSE IF s[i] = "\"" THEN Ok(S(acc), i + 1)
    ELSE IF s[i] \in ControlChars THEN Fail
    ELSE IF s[i] = "\\"
         THEN IF i + 1 <= Len(s) /\ s[i + 1] \in DOMAIN Escapes
              THEN ScanString(s, i + 2, Append(acc, Escapes[s[i + 1]]))
              ELSE Fail
    ELSE ScanString(s, i + 1, Append(acc, s[i]))

(* json.scanner.NUMBER_RE, its integer part: 0 or [1-9][0-9]* (sign,        *)
(* fraction and exponent are outside the alphabet).                         *)
RECURSIVE ScanDigits(_, _, _)
ScanDigits(s, i, n) ==
    IF i <= Len(s) /\ s[i] \in Digits
    THEN ScanDigits(s, i + 1, 10 * n + DigitVal(s[i]))
    ELSE Ok(PyInt(n), i)

ScanNumber(s, i) ==
    IF s[i] = "0" THEN Ok(PyInt(0), i + 1) ELSE ScanDigits(s, i, 0)

RECURSIVE ScanOnce(_, _)
RECURSIVE JSONArrayItems(_, _, _)
RECURSIVE JSONObjectItems(_, _, _)

(* json.decoder.JSONArray *)
JSONArray(s, i) ==
    LET j == SkipWs(s, i) IN
    IF j <= Len(s) /\ s[j] = "]" THEN Ok(PyList(<<>>), j + 1)
    ELSE JSONArrayItems(s, j, <<>>)

JSONArrayItems(s, i, acc) ==
    LET r == ScanOnce(s, i) IN
    IF ~r.ok THEN Fail
    ELSE LET j == SkipWs(s, r.pos)
             values == Append(acc, r.val)
         IN  IF j > Len(s) THEN Fail
             ELSE IF s[j] = "]" THEN Ok(PyList(values), j + 1)
             ELSE IF s[j] = "," THEN JSONArrayItems(s, SkipWs(s, j + 1), values)
             ELSE Fail

(* json.decoder.JSONObject: a key that occurs twice keeps its last value *)
JSONObject(s, i) ==
    LET j == SkipWs(s, i) IN
    IF j <= Len(s) /\ s[j] = "}" THEN Ok(D(EmptyMap), j + 1)
    ELSE JSONObjectItems(s, j, EmptyMap)

JSONObjectItems(s, i, acc) ==
    IF i > Len(s) \/ s[i] # "\"" THEN Fail
    ELSE LET key == ScanString(s, i + 1, <<>>) IN
         IF ~key.ok THEN Fail
         ELSE LET c == SkipWs(s, key.pos) IN
              IF c > Len(s) \/ s[c] # ":" THEN Fail
              ELSE LET r == ScanOnce(s, SkipWs(s, c + 1)) IN
                   IF ~r.ok THEN Fail
                   ELSE LET j == SkipWs(s, r.pos)
                            pairs == (key.val.v :> r.val) @@ acc
                        IN  IF j > Len(s) THEN Fail
                            ELSE IF s[j] = "}" THEN Ok(D(pairs), j + 1)
                            ELSE IF s[j] = ","
                                 THEN JSONObjectItems(s, SkipWs(s, j + 1), pairs)
                            ELSE Fail

(* json.scanner.py_make_scanner._scan_once *)
ScanOnce(s, i) ==
    IF i > Len(s) THEN Fail
    ELSE CASE s[i] = "\"" -> ScanString(s, i + 1, <<>>)
           [] s[i] = "{" -> JSONObject(s, i + 1)
           [] s[i] = "[" -> JSONArray(s, i + 1)
           [] StartsWithAt(s, i, <<"n", "u", "l", "l">>) -> Ok(None, i + 4)
           [] StartsWithAt(s, i, <<"t", "r", "u", "e">>) -> Ok(PyBool(TRUE), i + 4)
           [] StartsWithAt(s, i, <<"f", "a", "l", "s", "e">>) ->
                  Ok(PyBool(FALSE), i + 5)
           [] s[i] \in Digits -> ScanNumber(s, i)
           [] StartsWithAt(s, i, <<"N", "a", "N">>) -> Ok(PyFloat("nan"), i + 3)
           [] StartsWithAt(s, i, <<"I", "n", "f", "i", "n", "i", "t", "y">>) ->
                  Ok(PyFloat("inf"), i + 8)
           [] OTHER -> Fail

(* json.loads: one value with whitespace around it, and nothing else; a     *)
(* raise is json.JSONDecodeError.                                           *)
JsonLoads(s) ==
    LET r == ScanOnce(s, SkipWs(s, 1)) IN
    IF r.ok /\ SkipWs(s, r.pos) > Len(s) THEN [ok |-> TRUE, val |-> r.val]
    ELSE Fail

(* str.replace(old, new) *)
RECURSIVE Replace(_, _, _)
Replace(s, old, new) ==
    IF Len(s) < Len(old) THEN s
    ELSE IF SubSeq(s, 1, Len(old)) = old
         THEN new \o Replace(SubSeq(s, Len(old) + 1, Len(s)), old, new)
    ELSE <<Head(s)>> \o Replace(Tail(s), old, new)

(* str.strip() *)
RECURSIVE LStrip(_)
LStrip(s) ==
    IF s # <<>> /\ Head(s) \in SpaceChars THEN LStrip(Tail(s)) ELSE s

RECURSIVE RStrip(_)
RStrip(s) ==
    IF s # <<>> /\ s[Len(s)] \in SpaceChars
    THEN RStrip(SubSeq(s, 1, Len(s) - 1)) ELSE s

Strip(s) == RStrip(LStrip(s))

SetMin(xs) == CHOOSE x \in xs : \A y \in xs : x <= y
SetMax(xs) == CHOOSE x \in xs : \A y \in xs : y <= x

(* re.search(r"(\[.*\]|\{.*\})", text, re.DOTALL), and the same search with *)
(* the alternatives the other way round: the leftmost opener that has its   *)
(* closer somewhere after it, up to the last such closer.                   *)
Closer(c) == IF c = "[" THEN "]" ELSE "}"

SearchBlock(s) ==
    LET starts == {i \in 1..Len(s) :
                      /\ s[i] \in {"[", "{"}
                      /\ \E j \in (i + 1)..Len(s) : s[j] = Closer(s[i])}
    IN  IF starts = {} THEN [found |-> FALSE]
        ELSE LET i == SetMin(starts)
                 j == SetMax({e \in (i + 1)..Len(s) : s[e] = Closer(s[i])})
             IN  [found |-> TRUE, group |-> SubSeq(s, i, j)]

(* Lines 266-272: the four replacements, whatever the text is *)
CorrectCommonErrors(s) ==
    Replace(Replace(Replace(Replace(s, <<"'">>, <<"\"">>),
                            <<"T", "r", "u", "e">>, <<"t", "r", "u", "e">>),
                    <<"F", "a", "l", "s", "e">>, <<"f", "a", "l", "s", "e">>),
            <<"N", "o", "n", "e">>, <<"n", "u", "l", "l">>)

(* Line 275: re.sub(r",(\s*[}\]])", r"\1", text) drops every comma that is  *)
(* followed by optional white space and a closer.                           *)
RECURSIVE SkipSpace(_, _)
SkipSpace(s, i) ==
    IF i <= Len(s) /\ s[i] \in SpaceChars THEN SkipSpace(s, i + 1) ELSE i

RECURSIVE DropTrailingCommas(_, _)
DropTrailingCommas(s, i) ==
    IF i > Len(s) THEN <<>>
    ELSE LET j == SkipSpace(s, i + 1) IN
         IF s[i] = "," /\ j <= Len(s) /\ s[j] \in {"}", "]"}
         THEN DropTrailingCommas(s, i + 1)
         ELSE <<s[i]>> \o DropTrailingCommas(s, i + 1)

(* Line 284: re.sub(r"[\x00-\x1F\x7F]", "", text) *)
StripControl(s) == SelectSeq(s, LAMBDA c : c \notin ControlChars)

(* str.rfind: the start of the last occurrence, 0 when there is none *)
RFind(s, sub) ==
    LET at == {i \in 1..Len(s) : StartsWithAt(s, i, sub)} IN
    IF at = {} THEN 0 ELSE SetMax(at)

(* _extract_json_payload, lines 195-203: the text with its fence removed *)
StripFence(raw_text) ==
    LET cleaned == Strip(raw_text) IN
    IF StartsWithAt(cleaned, 1, Fence)
    THEN LET c1 == SubSeq(cleaned, 4, Len(cleaned))
             c2 == IF StartsWithAt(c1, 1, <<"j", "s", "o", "n">>)
                   THEN SubSeq(c1, 5, Len(c1)) ELSE c1
             end_idx == RFind(c2, Fence)
         IN  Strip(IF end_idx # 0 THEN SubSeq(c2, 1, end_idx - 1) ELSE c2)
    ELSE Strip(cleaned)

(* _extract_json_payload, lines 205-212: the value returned, or the         *)
(* JSONDecodeError of the first or of the second json.loads.                *)
ExtractJsonPayload(raw_text) ==
    LET cleaned == StripFence(raw_text)
        direct == JsonLoads(cleaned)
        match == SearchBlock(cleaned)
    IN  IF direct.ok THEN [pc |-> "done", data |-> direct.val]
        ELSE IF match.found /\ JsonLoads(match.group).ok
             THEN [pc |-> "done", data |-> JsonLoads(match.group).val]
        ELSE [pc |-> "raised", error |-> "JSONDecodeError"]

(* The replies of the backend *)
\* [{"a": 1}]
ArrayOfObject ==
    <<"[", "{", "\"", "a", "\"", ":", " ", "1", "}", "]">>

\* [{'a': True, 'b': None}]
QuasiArray ==
    <<"[", "{", "'", "a", "'", ":", " ", "T", "r", "u", "e", ",", " ", "'",
      "b", "'", ":", " ", "N", "o", "n", "e", "}", "]">>

\* [{"a":1},]
TrailingComma ==
    <<"[", "{", "\"", "a", "\"", ":", "1", "}", ",", "]">>

\* {"a": "it's"}
Apostrophe ==
    <<"{", "\"", "a", "\"", ":", " ", "\"", "i", "t", "'", "s", "\"", "}">>

\* ["True"]
TokenInString ==
    <<"[", "\"", "T", "r", "u", "e", "\"", "]">>

\* {"a": [1, 2]}
NestedObject ==
    <<"{", "\"", "a", "\"", ":", " ", "[", "1", ",", " ", "2", "]", "}">>

\* ["a<FF>b"]
FormFeedInString ==
    <<"[", "\"", "a", "\f", "b", "\"", "]">>

\* [1, 2}
Mismatched ==
    <<"[", "1", ",", " ", "2", "}">>

\* not json at all
NotJson ==
    <<"n", "o", "t", " ", "j", "s", "o", "n", " ", "a", "t", " ", "a", "l",
      "l">>

\* [False]
FalseToken ==
    <<"[", "F", "a", "l", "s", "e", "]">>

\* 12
Scalar ==
    <<"1", "2">>

\* [1,,2]
DoubleComma ==
    <<"[", "1", ",", ",", "2", "]">>

Payloads ==
    {ArrayOfObject,
     DoubleComma,
     QuasiArray,
     TrailingComma,
     Apostrophe,
     TokenInString,
     NestedObject,
     FormFeedInString,
     Mismatched,
     NotJson,
     FalseToken,
     Scalar}

(* What stands before the reply *)
\* (nothing)
NoPrefix == <<>>

\* Here: 
Prose ==
    <<"H", "e", "r", "e", ":", " ">>

\* <fence>json<LF>
FenceJson ==
    <<BACKTICK, BACKTICK, BACKTICK, "j", "s", "o", "n", "\n">>

\* <fence><LF>
FencePlain ==
    <<BACKTICK, BACKTICK, BACKTICK, "\n">>

Prefixes ==
    {NoPrefix,
     Prose,
     FenceJson,
     FencePlain}

(* What stands after the reply *)
\* (nothing)
NoSuffix == <<>>

\* <LF><fence>
FenceEnd ==
    <<"\n", BACKTICK, BACKTICK, BACKTICK>>

\*  ok
ProseEnd ==
    <<" ", "o", "k">>

Suffixes ==
    {NoSuffix,
     FenceEnd,
     ProseEnd}

(* The text handed to the parser *)
TextOf(p) == p.prefix \o p.payload \o p.suffix

Replies == [prefix : Prefixes, payload : Payloads, suffix : Suffixes]

Written(data) == [k |-> "json", v |-> data]

(* Lines 251-253 and 288-290: open(save_path, "w") and json.dump, either of *)
(* which can raise. "open_fail": open raises (save_path is a directory, no *)
(* permission) and the file is as it was. "write_fail": the dump raises    *)
(* after open has emptied the file (a full disk, a character the encoding  *)
(* cannot write) and leaves the text written so far.                       *)
SaveTo(old, data, outcome) ==
    CASE outcome = "ok" -> Written(data)
      [] outcome = "open_fail" -> old
      [] outcome = "write_fail" -> Truncated

(* The function after its parse succeeded: it returns the value, or the    *)
(* error of the write leaves it.                                           *)
Returned(done, save, outcome) ==
    IF save /\ outcome # "ok"
    THEN [done EXCEPT !.pc = "raised", !.error = "WriteError"]
    ELSE done

InitParse ==
    /\ video_dict = D(EmptyMap)
    /\ file = Absent
    /\ pc = "idle"
    /\ req = NoReq
    /\ tee = NoTee
    /\ runs = 0
    /\ generated = <<>>
    /\ served = NoServed
    /\ set_paths = {}
    /\ file_paths = {}
    /\ PvIdle
    /\ ParseIdle
    /\ MonIdle

(* Lines 248-256: the call and the direct json.loads of the raw text *)
clean_and_parse_json(reply, save) ==
    /\ cp.pc = "idle"
    /\ parts' = reply
    /\ llm_output' = TextOf(reply)
    /\ save_path' = save
    /\ LET first == JsonLoads(TextOf(reply)) IN
       IF first.ok
       THEN \E io \in IF save THEN IoOutcomes ELSE {"ok"} :
            /\ cp' = Returned([fn |-> "clean_and_parse_json", pc |-> "done",
                               json_like |-> <<>>, data |-> first.val,
                               error |-> "none"], save, io)
            /\ save_file' = IF save THEN SaveTo(save_file, first.val, io)
                            ELSE save_file
       ELSE /\ cp' = [fn |-> "clean_and_parse_json", pc |-> "search",
                      json_like |-> <<>>, data |-> None, error |-> "none"]
            /\ UNCHANGED save_file
    /\ UNCHANGED <<mainVars, pvVars, monVars>>

(* Lines 259-263: the first block in brackets or braces, or ValueError *)
ExtractBlock ==
    /\ cp.pc = "search"
    /\ LET match == SearchBlock(llm_output) IN
       IF match.found
       THEN cp' = [cp EXCEPT !.pc = "correct", !.json_like = match.group]
       ELSE cp' = [cp EXCEPT !.pc = "raised", !.error = "ValueError"]
    /\ UNCHANGED <<llm_output, parts, save_path, save_file>>
    /\ UNCHANGED <<mainVars, pvVars, monVars>>

(* Lines 266-272 *)
CorrectErrors ==
    /\ cp.pc = "correct"
    /\ cp' = [cp EXCEPT !.pc = "commas",
                        !.json_like = CorrectCommonErrors(@)]
    /\ UNCHANGED <<llm_output, parts, save_path, save_file>>
    /\ UNCHANGED <<mainVars, pvVars, monVars>>

(* Line 275 *)
TrailingCommas ==
    /\ cp.pc = "commas"
    /\ cp' = [cp EXCEPT !.pc = "second",
                        !.json_like = DropTrailingCommas(@, 1)]
    /\ UNCHANGED <<llm_output, parts, save_path, save_file>>
    /\ UNCHANGED <<mainVars, pvVars, monVars>>

(* Lines 278-280 and 288-292: the second json.loads *)
SecondLoad ==
    /\ cp.pc = "second"
    /\ LET second == JsonLoads(cp.json_like) IN
       IF second.ok
       THEN \E io \in IF save_path THEN IoOutcomes ELSE {"ok"} :
            /\ cp' = Returned([cp EXCEPT !.pc = "done", !.data = second.val],
                              save_path, io)
            /\ save_file' = IF save_path
                            THEN SaveTo(save_file, second.val, io)
                            ELSE save_file
       ELSE /\ cp' = [cp EXCEPT !.pc = "repair"]
            /\ UNCHANGED save_file
    /\ UNCHANGED <<llm_output, parts, save_path>>
    /\ UNCHANGED <<mainVars, pvVars, monVars>>

(* Variant: the stripped text is written to save_path before it is parsed *)
RepairSavesFirst ==
    /\ cp.pc = "repair"
    /\ LET stripped == StripControl(cp.json_like)
           third == JsonLoads(stripped)
       IN  /\ save_file' = IF save_path
                           THEN Written(IF third.ok THEN third.val ELSE S(stripped))
                           ELSE save_file
           /\ IF third.ok
              THEN cp' = [cp EXCEPT !.pc = "done", !.json_like = stripped,
                                    !.data = third.val]
              ELSE cp' = [cp EXCEPT !.pc = "raised", !.json_like = stripped,
                                    !.error = "JSONDecodeError"]
    /\ UNCHANGED <<llm_output, parts, save_path>>
    /\ UNCHANGED <<mainVars, pvVars, monVars>>

(* Lines 281-292: the control characters go and json.loads runs a third     *)
(* time, outside any try: its JSONDecodeError leaves the function.          *)
Repair ==
    /\ cp.pc = "repair"
    /\ LET stripped == StripControl(cp.json_like)
           third == JsonLoads(stripped)
       IN  IF third.ok
           THEN \E io \in IF save_path THEN IoOutcomes ELSE {"ok"} :
                /\ cp' = Returned([cp EXCEPT !.pc = "done",
                                             !.json_like = stripped,
                                             !.data = third.val],
                                  save_path, io)
                /\ save_file' = IF save_path
                                THEN SaveTo(save_file, third.val, io)
                                ELSE save_file
           ELSE /\ cp' = [cp EXCEPT !.pc = "raised", !.json_like = stripped,
                                    !.error = "JSONDecodeError"]
                /\ UNCHANGED save_file
    /\ UNCHANGED <<llm_output, parts, save_path>>
    /\ UNCHANGED <<mainVars, pvVars, monVars>>

(* _extract_json_payload, lines 192-212, as one step *)
extract_json_payload(reply) ==
    /\ cp.pc = "idle"
    /\ parts' = reply
    /\ llm_output' = TextOf(reply)
    /\ LET r == ExtractJsonPayload(TextOf(reply)) IN
       cp' = [fn |-> "_extract_json_payload", pc |-> r.pc,
              json_like |-> StripFence(TextOf(reply)),
              data |-> IF r.pc = "done" THEN r.data ELSE None,
              error |-> IF r.pc = "done" THEN "none" ELSE r.error]
    /\ UNCHANGED <<save_path, save_file>>
    /\ UNCHANGED <<mainVars, pvVars, monVars>>

NextParse ==
    \/ \E reply \in Replies, save \in BOOLEAN : clean_and_parse_json(reply, save)
    \/ ExtractBlock
    \/ CorrectErrors
    \/ TrailingCommas
    \/ SecondLoad
    \/ Repair
    \/ \E reply \in Replies : extract_json_payload(reply)

SpecParse == InitParse /\ [][NextParse]_vars

----------------------------------------------------------------------------
(* new_video_check.py: the monitor. add_channel and check_for_new_videos    *)
(* with process_channel, over the state file channel_state.json. A video id *)
(* is the number of the upload on its channel; the feed of a channel lists  *)
(* its uploads newest first.                                                *)

Channels == {"c1", "c2"}
(* The values of --limit: an inspection of the newest few, of the 50 the    *)
(* window holds, and of more than the window holds.                         *)
AddLimits == {2, 60}
CheckLimits == {2, 60}
(* The uploads of the channels when the monitor is first used: one channel  *)
(* with more videos than the window holds, one with a single video.         *)
FirstUploads == ("c1" :> 52) @@ ("c2" :> 1)
(* The uploads whose transcript cannot be fetched at first *)
FirstUnavailable == ("c1" :> {1}) @@ ("c2" :> {})

Range(seq) == {seq[i] : i \in 1..Len(seq)}
Take(seq, n) == SubSeq(seq, 1, IF n < Len(seq) THEN n ELSE Len(seq))
Reverse(seq) == [i \in 1..Len(seq) |-> seq[Len(seq) + 1 - i]]

(* Line 156: combined[:50] *)
KnownCap == 50

(* The RSS feed of a channel: its uploads, newest first. A feed that is     *)
(* "repeat" lists its newest entry twice.                                   *)
FeedKinds == {"plain", "repeat"}
Feed(n, kind) ==
    LET plain == [i \in 1..n |-> n + 1 - i] IN
    IF kind = "repeat" /\ n > 0 THEN <<n>> \o plain ELSE plain

(* fetch_latest_videos, lines 52-66: the ids of the first limit entries *)
fetch_latest_videos(n, kind, limit) == Take(Feed(n, kind), limit)

(* load_state, lines 72-79: of a file that json.load can read. On a file    *)
(* that a failed save has cut, json.load raises JSONDecodeError.            *)
EmptyState == [order |-> <<>>, channels |-> <<>>]
load_state(f) == IF f = NoFile THEN EmptyState ELSE f.v

(* save_state, lines 85-86: open(STATE_FILE, "w") and json.dump, either of  *)
(* which can raise. "open_fail": the file is as it was. "write_fail": open  *)
(* has emptied the file and the dump raises part-way (a full disk, a name   *)
(* the encoding cannot write).                                              *)
save_state(old, st, outcome) ==
    CASE outcome = "ok" -> Written(st)
      [] outcome = "open_fail" -> old
      [] outcome = "write_fail" -> Truncated

(* The values of --name: none, an empty one and the one of the docstring *)
ChannelNames == {None, S(""), S("My Channel")}

(* Variant: the known ids come first and the latest ids after them *)
UpdateKnownAppends(existing, latest_ids) ==
    Take(SelectSeq(existing, LAMBDA vid : vid \notin Range(latest_ids))
         \o latest_ids, KnownCap)

(* _update_known_videos, lines 153-156 *)
update_known_videos(existing, latest_ids) ==
    Take(latest_ids
         \o SelectSeq(existing, LAMBDA vid : vid \notin Range(latest_ids)),
         KnownCap)

(* Lines 200-204: the entry of analyses *)
Analysis(vid, stocks) == [video |-> vid, stocks |-> stocks]

NoMon == [pc |-> "idle", queue |-> <<>>, chan |-> "none", limit |-> 0,
          latest |-> <<>>, known0 |-> <<>>, todo |-> <<>>, sent |-> <<>>,
          analysed |-> <<>>, skipped |-> {}, cause |-> "none",
          updated |-> FALSE]

InitMonitor ==
    /\ video_dict = D(EmptyMap)
    /\ file = Absent
    /\ pc = "idle"
    /\ req = NoReq
    /\ tee = NoTee
    /\ runs = 0
    /\ generated = <<>>
    /\ served = NoServed
    /\ set_paths = {}
    /\ file_paths = {}
    /\ PvIdle
    /\ ParseIdle
    /\ state_file = NoFile
    /\ state = EmptyState
    /\ mon = NoMon
    /\ uploads = FirstUploads
    /\ unavailable = FirstUnavailable
    /\ checks = 0
    /\ saved_analysed = [c \in Channels |-> {}]
    /\ saved_skipped = [c \in Channels |-> {}]

(* The number of videos published since the monitor was first used *)
NewUploads ==
    (uploads["c1"] - FirstUploads["c1"]) + (uploads["c2"] - FirstUploads["c2"])

(* The channel publishes a video, with or without a transcript. *)
Upload(c, has_transcript) ==
    /\ mon.pc = "idle"
    /\ NewUploads < MaxUploads
    /\ uploads' = [uploads EXCEPT ![c] = @ + 1]
    /\ unavailable' = IF has_transcript THEN unavailable
                      ELSE [unavailable EXCEPT ![c] = @ \cup {uploads[c] + 1}]
    /\ UNCHANGED <<state_file, state, mon, checks, saved_analysed,
                   saved_skipped>>
    /\ UNCHANGED <<mainVars, pvVars, parseVars>>

(* add_channel, lines 96-112. With the channel tracked already nothing      *)
(* changes; a load or a fetch that raises leaves the file as it is; the     *)
(* name stored is name or channel_id.                                       *)
add_channel(channel_id, name, limit, kind, fetch_ok, io) ==
    /\ mon.pc = "idle"
    /\ IF state_file = Truncated
       THEN UNCHANGED <<state_file, state>>
       ELSE
       LET st == load_state(state_file) IN
       IF channel_id \in DOMAIN st.channels \/ ~fetch_ok
       THEN UNCHANGED <<state_file, state>>
       ELSE LET videos == fetch_latest_videos(uploads[channel_id], kind, limit)
                entry == [name |-> IF name = None \/ name = S("")
                                   THEN channel_id ELSE name.v,
                          known_videos |-> videos,
                          analyses |-> <<>>]
                new == [order |-> Append(st.order, channel_id),
                        channels |-> (channel_id :> entry) @@ st.channels]
            IN  /\ state_file' = save_state(state_file, new, io)
                /\ UNCHANGED state
    /\ UNCHANGED <<mon, uploads, unavailable, checks, saved_analysed,
                   saved_skipped>>
    /\ UNCHANGED <<mainVars, pvVars, parseVars>>

(* check_for_new_videos, lines 226-235: channel_ids is None (every tracked  *)
(* channel, in the order of the file) or a list.                            *)
ChannelLists == {<<>>} \cup {<<c>> : c \in Channels}

check_for_new_videos(channel_ids, limit) ==
    /\ mon.pc = "idle"
    /\ checks < MaxChecks
    /\ checks' = checks + 1
    /\ IF state_file = Truncated
       THEN /\ mon' = [NoMon EXCEPT !.pc = "aborted", !.cause = "load"]
            /\ UNCHANGED state
       ELSE
       LET st == load_state(state_file) IN
       IF st.order = <<>>
       THEN /\ mon' = NoMon
            /\ UNCHANGED state
       ELSE /\ state' = st
            /\ mon' = [NoMon EXCEPT !.pc = "channels", !.limit = limit,
                          !.queue = IF channel_ids = <<>> THEN st.order
                                    ELSE channel_ids]
    /\ UNCHANGED <<state_file, uploads, unavailable, saved_analysed,
                   saved_skipped>>
    /\ UNCHANGED <<mainVars, pvVars, parseVars>>

(* Lines 236-242: the loop is over and the summary is returned. *)
ReturnSummary ==
    /\ mon.pc = "channels"
    /\ mon.queue = <<>>
    /\ mon' = NoMon
    /\ state' = EmptyState
    /\ UNCHANGED <<state_file, uploads, unavailable, checks,
                   saved_analysed, saved_skipped>>
    /\ UNCHANGED <<mainVars, pvVars, parseVars>>

(* Variant: the new videos are processed in fetch order, newest first *)
ProcessChannelNewestFirst(kind, fetch_ok) ==
    /\ mon.pc = "channels"
    /\ mon.queue # <<>>
    /\ LET channel_id == Head(mon.queue) IN
       IF channel_id \notin DOMAIN state.channels
       THEN mon' = [mon EXCEPT !.queue = Tail(@), !.updated = FALSE]
       ELSE IF ~fetch_ok
       THEN mon' = [mon EXCEPT !.pc = "aborted", !.chan = channel_id,
                               !.cause = "feed", !.updated = FALSE,
                               !.sent = <<>>, !.analysed = <<>>,
                               !.skipped = {}]
       ELSE LET latest_videos ==
                    fetch_latest_videos(uploads[channel_id], kind, mon.limit)
                known == state.channels[channel_id].known_videos
                new_videos == SelectSeq(latest_videos,
                                        LAMBDA vid : vid \notin Range(known))
            IN  mon' = [mon EXCEPT !.pc = "videos", !.chan = channel_id,
                                   !.queue = Tail(@),
                                   !.latest = latest_videos,
                                   !.known0 = known,
                                   !.todo = new_videos,
                                   !.sent = <<>>, !.analysed = <<>>,
                                   !.skipped = {}, !.updated = FALSE]
    /\ UNCHANGED <<state_file, state, uploads, unavailable, checks,
                   saved_analysed, saved_skipped>>
    /\ UNCHANGED <<mainVars, pvVars, parseVars>>

(* Lines 237-240 and process_channel, lines 170-190: a channel that is not  *)
(* tracked is skipped; for a tracked one the feed is fetched and the new    *)
(* videos are the fetched ones that are not known. A fetch that raises      *)
(* ends the whole check.                                                    *)
process_channel(kind, fetch_ok) ==
    /\ mon.pc = "channels"
    /\ mon.queue # <<>>
    /\ LET channel_id == Head(mon.queue) IN
       IF channel_id \notin DOMAIN state.channels
       THEN mon' = [mon EXCEPT !.queue = Tail(@), !.updated = FALSE]
       ELSE IF ~fetch_ok
       THEN mon' = [mon EXCEPT !.pc = "aborted", !.chan = channel_id,
                               !.cause = "feed", !.updated = FALSE,
                               !.sent = <<>>, !.analysed = <<>>,
                               !.skipped = {}]
       ELSE LET latest_videos ==
                    fetch_latest_videos(uploads[channel_id], kind, mon.limit)
                known == state.channels[channel_id].known_videos
                new_videos == SelectSeq(latest_videos,
                                        LAMBDA vid : vid \notin Range(known))
            IN  mon' = [mon EXCEPT !.pc = "videos", !.chan = channel_id,
                                   !.queue = Tail(@),
                                   !.latest = latest_videos,
                                   !.known0 = known,
                                   !.todo = Reverse(new_videos),
                                   !.sent = <<>>, !.analysed = <<>>,
                                   !.skipped = {}, !.updated = FALSE]
    /\ UNCHANGED <<state_file, state, uploads, unavailable, checks,
                   saved_analysed, saved_skipped>>
    /\ UNCHANGED <<mainVars, pvVars, parseVars>>

TranscriptOutcomes == {"ok", "error"}
AnalysisOutcomes == {"ok", "error"}

(* Lines 192-212: one turn of the loop over the new videos, oldest first.   *)
(* _fetch_transcript returns "" for the errors of the transcript library    *)
(* (lines 137-145) and the video is skipped; any other error of the fetch,  *)
(* and any error of extract_stock_sentiments, leaves process_channel.       *)
AnalyseVideo(transcript, analysis) ==
    /\ mon.pc = "videos"
    /\ mon.todo # <<>>
    /\ LET vid == Head(mon.todo)
           c == mon.chan
           m1 == [mon EXCEPT !.sent = Append(@, vid)]
       IN  IF transcript = "error"
           THEN /\ mon' = [m1 EXCEPT !.pc = "aborted", !.cause = "transcript"]
                /\ UNCHANGED state
           ELSE IF vid \in unavailable[c]
           THEN /\ mon' = [m1 EXCEPT !.todo = Tail(@),
                                     !.skipped = @ \cup {vid}]
                /\ UNCHANGED state
           ELSE IF analysis = "error"
           THEN /\ mon' = [m1 EXCEPT !.pc = "aborted", !.cause = "analysis",
                                     !.analysed = Append(@, vid)]
                /\ UNCHANGED state
           ELSE /\ mon' = [m1 EXCEPT !.todo = Tail(@),
                                     !.analysed = Append(@, vid)]
                /\ state' = [state EXCEPT !.channels[c].analyses =
                                (vid :> Analysis(vid, "stocks")) @@ @]
    /\ UNCHANGED <<state_file, uploads, unavailable, checks, saved_analysed,
                   saved_skipped>>
    /\ UNCHANGED <<mainVars, pvVars, parseVars>>

(* Lines 214-216: the known ids are updated and the state is saved; the     *)
(* error of a save that fails leaves process_channel and the check.         *)
FinishChannel(io) ==
    /\ mon.pc = "videos"
    /\ mon.todo = <<>>
    /\ LET c == mon.chan
           new == [state EXCEPT !.channels[c].known_videos =
                       update_known_videos(@, mon.latest)]
       IN  /\ state' = new
           /\ state_file' = save_state(state_file, new, io)
           /\ IF io = "ok"
              THEN /\ saved_analysed' = [saved_analysed EXCEPT
                                           ![c] = @ \cup Range(mon.analysed)]
                   /\ saved_skipped' = [saved_skipped EXCEPT
                                          ![c] = @ \cup mon.skipped]
                   /\ mon' = [mon EXCEPT !.pc = "channels", !.updated = TRUE]
              ELSE /\ UNCHANGED <<saved_analysed, saved_skipped>>
                   /\ mon' = [mon EXCEPT !.pc = "aborted", !.cause = "save",
                                         !.updated = TRUE]
    /\ UNCHANGED <<uploads, unavailable, checks>>
    /\ UNCHANGED <<mainVars, pvVars, parseVars>>

(* The error has left check_for_new_videos and main: the process is over,   *)
(* with the state file as the last save_state left it.                      *)
Exit ==
    /\ mon.pc = "aborted"
    /\ mon' = NoMon
    /\ state' = EmptyState
    /\ UNCHANGED <<state_file, uploads, unavailable, checks, saved_analysed,
                   saved_skipped>>
    /\ UNCHANGED <<mainVars, pvVars, parseVars>>

NextMonitor ==
    \/ \E c \in Channels, has_transcript \in BOOLEAN : Upload(c, has_transcript)
    \/ \E c \in Channels, name \in ChannelNames, limit \in AddLimits,
          kind \in FeedKinds, fetch_ok \in BOOLEAN, io \in IoOutcomes :
          add_channel(c, name, limit, kind, fetch_ok, io)
    \/ \E ids \in ChannelLists, limit \in CheckLimits :
          check_for_new_videos(ids, limit)
    \/ ReturnSummary
    \/ \E kind \in FeedKinds, fetch_ok \in BOOLEAN : process_channel(kind, fetch_ok)
    \/ \E t \in TranscriptOutcomes, a \in AnalysisOutcomes : AnalyseVideo(t, a)
    \/ \E io \in IoOutcomes : FinishChannel(io)
    \/ Exit

SpecMonitor == InitMonitor /\ [][NextMonitor]_vars

(* process_channel as a function: one call for channel c1, on a state file  *)
(* as add_channel leaves it and a feed that has grown since by at most two  *)
(* uploads, with the default limit, a smaller and a larger one.             *)
BaselineUploads == {49, 50}
LaterUploads == {0, 1, 2}
ProcessLimits == {2, 5, 60}

TrackedOnly(channel_id, known) ==
    [order |-> <<channel_id>>,
     channels |-> (channel_id :>
                     [name |-> channel_id, known_videos |-> known,
                      analyses |-> <<>>])]

InitChannel ==
    /\ video_dict = D(EmptyMap)
    /\ file = Absent
    /\ pc = "idle"
    /\ req = NoReq
    /\ tee = NoTee
    /\ runs = 0
    /\ generated = <<>>
    /\ served = NoServed
    /\ set_paths = {}
    /\ file_paths = {}
    /\ PvIdle
    /\ ParseIdle
    /\ \E n \in BaselineUploads, kind \in FeedKinds, add_limit \in AddLimits,
          later \in LaterUploads, limit \in ProcessLimits :
          /\ state = TrackedOnly("c1", fetch_latest_videos(n, kind, add_limit))
          /\ state_file = save_state(NoFile, state, "ok")
          /\ uploads = ("c1" :> n + later) @@ ("c2" :> 1)
          /\ unavailable \in {[c \in Channels |-> {}],
                              ("c1" :> {1}) @@ ("c2" :> {}),
                              ("c1" :> {n + 1}) @@ ("c2" :> {})}
          /\ mon = [NoMon EXCEPT !.pc = "channels", !.limit = limit,
                                 !.queue = <<"c1">>]
    /\ checks = 1
    /\ saved_analysed = [c \in Channels |-> {}]
    /\ saved_skipped = [c \in Channels |-> {}]

NextChannel ==
    \/ \E kind \in FeedKinds, fetch_ok \in BOOLEAN : process_channel(kind, fetch_ok)
    \/ \E t \in TranscriptOutcomes, a \in AnalysisOutcomes : AnalyseVideo(t, a)
    \/ \E io \in IoOutcomes : FinishChannel(io)
    \/ ReturnSummary
    \/ Exit

SpecChannel == InitChannel /\ [][NextChannel]_vars

----------------------------------------------------------------------------
(* Properties of the tee and of the cache *)

TeePath == <<tee.video_id, tee.target_key, tee.language>>

RECURSIVE ConcatFrom(_, _)
ConcatFrom(acc, seq) ==
    IF seq = <<>> THEN acc ELSE ConcatFrom(acc \o Head(seq), Tail(seq))

Concatenation(seq) == ConcatFrom("", seq)

HoldsAt(dict, path, text) ==
    /\ path[1] \in DOMAIN dict.v
    /\ path[2] \in DOMAIN dict.v[path[1]].v
    /\ path[3] \in DOMAIN dict.v[path[1]].v[path[2]].v
    /\ dict.v[path[1]].v[path[2]].v[path[3]] = S(text)

(* C1: a tee that was drained to its end has yielded exactly the upstream   *)
(* fragments in their order (and at every moment a prefix of them), and     *)
(* with store set the value at (video_id, target_key, language), in the     *)
(* cache and in the document, is their concatenation in that order:         *)
(* "Hel", "lo" commit "Hello".                                              *)
C1_TeeForwardsAndCommits ==
    /\ tee.state = "running" =>
          tee.yielded = SubSeq(tee.src, 1, Len(tee.yielded))
    /\ tee.state = "done" =>
          /\ tee.yielded = tee.src
          /\ tee.store =>
                /\ HoldsAt(video_dict, TeePath, Concatenation(tee.src))
                /\ file.k = "doc"
                /\ HoldsAt(JsonLoad(file.v), TeePath, Concatenation(tee.src))
          /\ (tee.store /\ tee.src = <<"Hel", "lo">>) =>
                HoldsAt(video_dict, TeePath, "Hello")

C1_Witness ==
    /\ tee.state = "done"
    /\ tee.store
    /\ tee.src = <<"Hel", "lo">>
    /\ tee.yielded = <<"Hel", "lo">>
    /\ HoldsAt(video_dict, TeePath, "Hello")

(* C2: a tee run with store false and drained to its end leaves the cache   *)
(* and the document exactly as they were when it started.                   *)
C2_NoStoreNoChange ==
    (tee.state = "done" /\ ~tee.store) =>
        /\ video_dict = tee.dict0
        /\ file = tee.file0

C2_Witness ==
    /\ tee.state = "done"
    /\ ~tee.store
    /\ Len(tee.yielded) = 2
    /\ ~KeyExistsIn(TeePath, video_dict)
    /\ file = tee.file0

(* C3: the cache and the document are untouched while the tee runs and      *)
(* after the consumer abandoned it or the upstream failed; a tee that       *)
(* reached exhaustion with store set has changed the cache by one commit    *)
(* of the whole text.                                                       *)
C3_NoPartialCommit ==
    /\ tee.state \in {"running", "abandoned", "failed"} =>
          /\ video_dict = tee.dict0
          /\ file = tee.file0
    /\ (tee.state \in {"done", "ioerror"} /\ tee.store) =>
          video_dict = Commit(tee.dict0, tee.video_id, tee.target_key,
                              tee.language, Concatenation(tee.src))

C3_Witness ==
    /\ tee.state = "abandoned"
    /\ tee.store
    /\ Len(tee.yielded) = 1
    /\ Len(tee.src) = 2
    /\ video_dict = tee.dict0

(* An intermediate key of the path holds a value that is not a dict *)
ScalarOnPath(dict, path) ==
    \E n \in 1..(Len(path) - 1) :
        /\ KeyExistsIn(SubSeq(path, 1, n), dict)
        /\ GetIn(SubSeq(path, 1, n), dict).k # "dict"

TeeCommitted == tee.state \in {"done", "raised", "ioerror"} /\ tee.store

(* C4 as stated: after the set of a storing tee the key path exists and     *)
(* holds the value, also when an intermediate key held a non-mapping value. *)
C4_AsStated ==
    TeeCommitted =>
        /\ key_exists(TeePath)
        /\ GetIn(TeePath, video_dict) = S(Concatenation(tee.src))

(* C4: after the set of a storing tee whose path meets no non-mapping       *)
(* value, the key path exists and holds the new value, whatever was there   *)
(* before; when an intermediate key holds a non-mapping value the set       *)
(* raises and the cache and the document are unchanged.                     *)
C4_ReadAfterWrite ==
    TeeCommitted =>
        IF ScalarOnPath(tee.dict0, TeePath)
        THEN /\ tee.state = "raised"
             /\ video_dict = tee.dict0
             /\ file = tee.file0
             /\ ~key_exists(TeePath)
        ELSE /\ tee.state # "raised"
             /\ key_exists(TeePath)
             /\ GetIn(TeePath, video_dict) = S(Concatenation(tee.src))

C4_Witness ==
    /\ tee.state = "done"
    /\ tee.store
    /\ KeyExistsIn(TeePath, tee.dict0)
    /\ GetIn(TeePath, tee.dict0) = S("old")
    /\ GetIn(TeePath, video_dict) = S("Hello")

ProbePaths ==
    {<<v>> : v \in VideoIds \cup {"v0"}}
    \cup {<<v, c>> : v \in VideoIds, c \in Categories}
    \cup {<<v, c, l>> : v \in VideoIds, c \in Categories, l \in Languages}
    \cup {<<v, "summary", l, "x">> : v \in VideoIds, l \in Languages}
    \cup {<<"v0", "summary", "English">>, <<"v1", "English">>,
          <<"v1", "summary", "French">>}

(* C5: key_exists returns a boolean for every key list, and false for       *)
(* every key path that was never assigned in the cache: a key is absent,    *)
(* or the value reached (a transcript, a stored text) is not a mapping.     *)
C5_KeyExistsTotal ==
    \A p \in ProbePaths :
        /\ key_exists(p) \in BOOLEAN
        /\ p \notin set_paths => ~key_exists(p)

C5_Witness ==
    /\ key_exists(<<"v1", "summary", "English">>)
    /\ ~key_exists(<<"v1", "summary", "German">>)
    /\ ~key_exists(<<"v1", "transcript", "English">>)
    /\ ~key_exists(<<"v1", "summary", "English", "x">>)
    /\ ~key_exists(<<"v2">>)

(* C6: with the default prompt (store set) the backend stream is started    *)
(* only for a key path absent from the cache and never for one whose        *)
(* stored generation was completed before; a cache hit reads the text of    *)
(* that completed generation.                                               *)
C6_BackendOnlyOnMiss ==
    /\ (pc = "stream" /\ tee.state = "running" /\ tee.store) =>
          /\ ~KeyExistsIn(TeePath, tee.dict0)
          /\ TeePath \notin DOMAIN generated
    /\ served.state = "hit" =>
          /\ served.path \in DOMAIN generated
          /\ served.text = generated[served.path]

C6_Witness ==
    /\ served.state = "hit"
    /\ served.text = "Hello"
    /\ served.path = <<"v1", "summary", "English">>
    /\ runs = 2
    /\ tee.state = "none"
    /\ pc = "tab_stocks"

----------------------------------------------------------------------------
(* Properties of persist and load *)

(* C7 as stated: after a successful save_to_json, load_json_file returns    *)
(* a store equal to the one persisted, transcript records included.         *)
C7_AsStated ==
    pv.saved = "ok" => load_json_file(transcript_file) = transcript_dict

(* C7: after a successful save_to_json, load_json_file returns a store      *)
(* with the same video ids and the same fields; every field that is a       *)
(* text or None comes back equal, and processed_on, a datetime in the       *)
(* record process_videos has just written, comes back as the text str()     *)
(* gives for it.                                                            *)
C7_RoundTripUpToStr ==
    pv.saved = "ok" =>
        LET loaded == load_json_file(transcript_file) IN
        /\ loaded.k = "dict"
        /\ DOMAIN loaded.v = DOMAIN transcript_dict.v
        /\ \A id \in DOMAIN transcript_dict.v :
              LET mem == transcript_dict.v[id]
                  got == loaded.v[id]
              IN  /\ got.k = "dict"
                  /\ DOMAIN got.v = DOMAIN mem.v
                  /\ \A fld \in DOMAIN mem.v :
                        IF mem.v[fld].k = "datetime"
                        THEN got.v[fld] = S(StrOfDatetime(mem.v[fld].v))
                        ELSE got.v[fld] = mem.v[fld]

C7_Witness ==
    /\ pv.saved = "ok"
    /\ DOMAIN transcript_dict.v = {"a", "b"}
    /\ transcript_dict.v["a"].v["processed_on"].k = "str"
    /\ transcript_dict.v["b"].v["processed_on"].k = "datetime"
    /\ transcript_dict.v["b"].v["description"] = None
    /\ load_json_file(transcript_file).v["b"].v["processed_on"].k = "str"

(* C8: when save_to_json fails, the error that leaves it is the original    *)
(* one and, when a document had been persisted before, some backup holds    *)
(* the last content successfully persisted at the path.                     *)
C8_BackupHoldsLastGood ==
    pv.saved = "failed" =>
        /\ pv.error = "original"
        /\ last_good # Absent =>
              \E at \in DOMAIN backups : backups[at] = last_good

----------------------------------------------------------------------------
(* Properties of the repair parser *)

(* clean_and_parse_json as a function of its text: the value it returns or  *)
(* the error it raises.                                                     *)
ParseResult(text) ==
    LET first == JsonLoads(text)
        match == SearchBlock(text)
    IN  IF first.ok THEN [pc |-> "done", data |-> first.val]
        ELSE IF ~match.found THEN [pc |-> "raised", error |-> "ValueError"]
        ELSE LET json_like == DropTrailingCommas(
                                  CorrectCommonErrors(match.group), 1)
                 second == JsonLoads(json_like)
                 third == JsonLoads(StripControl(json_like))
             IN  IF second.ok THEN [pc |-> "done", data |-> second.val]
                 ELSE IF third.ok THEN [pc |-> "done", data |-> third.val]
                 ELSE [pc |-> "raised", error |-> "JSONDecodeError"]

(* The call is over and its write, if it had one to do, did not fail: it    *)
(* returned a value or raised the error of its parse.                       *)
WriteFailed ==
    /\ cp.fn = "clean_and_parse_json"
    /\ cp.pc = "raised"
    /\ cp.error = "WriteError"

ParseOver ==
    /\ cp.fn = "clean_and_parse_json"
    /\ cp.pc \in {"done", "raised"}
    /\ ~WriteFailed

(* C9: when the raw text does not parse directly and the block that the     *)
(* search extracts from it is valid JSON as it stands, the parser returns   *)
(* exactly the value of that block: the attempts stop at the first parse    *)
(* that succeeds and no later normalization touches the block.              *)
C9_StopsAtFirstParse ==
    (/\ ParseOver
     /\ ~JsonLoads(llm_output).ok
     /\ SearchBlock(llm_output).found
     /\ JsonLoads(SearchBlock(llm_output).group).ok)
    => /\ cp.pc = "done"
       /\ cp.data = JsonLoads(SearchBlock(llm_output).group).val

Fenced(p) ==
    /\ p.prefix \in {FenceJson, FencePlain}
    /\ p.suffix = FenceEnd

IsObjectOrArray(text) ==
    /\ ParseResult(text).pc = "done"
    /\ ParseResult(text).data.k \in {"dict", "list"}
    /\ Head(text) \in {"[", "{"}

(* C10: a text X that the parser accepts as an object or an array, wrapped  *)
(* in a leading fence (with or without the language tag) and a trailing     *)
(* fence, parses to the value X parses to.                                  *)
C10_FenceTransparent ==
    (ParseOver /\ Fenced(parts) /\ IsObjectOrArray(parts.payload))
    => /\ cp.pc = "done"
       /\ cp.data = ParseResult(parts.payload).data

(* What the error that leaves clean_and_parse_json carries: the ValueError   *)
(* of line 261 has a fixed message, the JSONDecodeError of line 285 has the  *)
(* text it was given as its doc.                                             *)
NoBlockMessage == <<"K", "e", "i", "n", " ", "B", "l", "o", "c", "k">>
ErrorText ==
    IF cp.error = "JSONDecodeError" THEN cp.json_like ELSE NoBlockMessage

ParseFailed == ParseOver /\ cp.pc = "raised"

(* C11 as stated: every failure of the parser is of the one kind that the    *)
(* text without a block ends in, and it carries the original raw text.       *)
C11_AsStated ==
    ParseFailed =>
        /\ cp.error = ParseResult(NotJson).error
        /\ ErrorText = llm_output
        /\ save_file = NoFile

(* The text has an opening bracket or brace with its closer after it *)
HasBlock(text) ==
    \E i, j \in 1..Len(text) :
        /\ i < j
        /\ \/ text[i] = "[" /\ text[j] = "]"
           \/ text[i] = "{" /\ text[j] = "}"

(* C11: the parser fails to parse exactly in two ways, and in both nothing   *)
(* is returned and nothing is written to save_path. A text without a block   *)
(* in brackets or braces ends in ValueError with its fixed message. A text   *)
(* with a block ends in JSONDecodeError, whose doc is the block as the       *)
(* normalizations left it: from its opener to its closer, not longer than    *)
(* the raw text, without apostrophes and control characters, and not valid   *)
(* JSON. The doc is the raw text when the raw text is itself the block and   *)
(* no normalization changes it ([1,,2]); it is another text otherwise        *)
(* (Here: {"a": "it's"} gives {"a": "it"s"}). The one other error that       *)
(* leaves the function is that of the write to save_path, after a parse      *)
(* that succeeded: the file is then as it was or holds what was written      *)
(* before the error, never the whole result.                                 *)
C11_FailureKinds ==
    /\ WriteFailed =>
          /\ save_path
          /\ ParseResult(llm_output).pc = "done"
          /\ save_file \in {NoFile, Truncated}
    /\ ParseFailed =>
          /\ ~JsonLoads(llm_output).ok
          /\ cp.data = None
          /\ save_file = NoFile
          /\ cp.error = IF HasBlock(llm_output) THEN "JSONDecodeError"
                        ELSE "ValueError"
          /\ ~HasBlock(llm_output) => ErrorText = NoBlockMessage
          /\ HasBlock(llm_output) =>
                /\ Head(ErrorText) \in {"[", "{"}
                /\ ErrorText[Len(ErrorText)] = Closer(Head(ErrorText))
                /\ \A k \in 1..Len(ErrorText) :
                      ErrorText[k] \notin ControlChars \cup {"'"}
                /\ Len(ErrorText) <= Len(llm_output)
                /\ ~JsonLoads(ErrorText).ok
          /\ parts.payload \in {NotJson, Mismatched} => cp.error = "ValueError"
          /\ parts = [prefix |-> NoPrefix, payload |-> DoubleComma,
                      suffix |-> NoSuffix]
                => ErrorText = llm_output
          /\ parts = [prefix |-> Prose, payload |-> Apostrophe,
                      suffix |-> NoSuffix]
                => ErrorText = <<"{", "\"", "a", "\"", ":", " ", "\"", "i", "t",
                                 "\"", "s", "\"", "}">>

C11_Witness ==
    /\ ParseFailed
    /\ save_path
    /\ cp.error = "JSONDecodeError"
    /\ parts.payload = DoubleComma
    /\ ErrorText = llm_output

----------------------------------------------------------------------------
(* Properties of the monitor *)

KnownOf(st, c) == st.channels[c].known_videos

(* The number of entries of existing up to position j that are not among    *)
(* the latest ids                                                           *)
KeptUpTo(existing, latest_ids, j) ==
    Cardinality({k \in 1..j : existing[k] \notin Range(latest_ids)})

(* result is made of the latest ids in their order, followed by the entries *)
(* of existing that are not among them in their order, cut after cap.       *)
IsRollingWindow(result, existing, latest_ids, cap) ==
    LET total == Len(latest_ids) + KeptUpTo(existing, latest_ids, Len(existing))
    IN  /\ Len(result) = IF total < cap THEN total ELSE cap
        /\ \A i \in 1..Len(result) :
              IF i <= Len(latest_ids)
              THEN result[i] = latest_ids[i]
              ELSE \E j \in 1..Len(existing) :
                      /\ existing[j] \notin Range(latest_ids)
                      /\ KeptUpTo(existing, latest_ids, j) = i - Len(latest_ids)
                      /\ result[i] = existing[j]

(* The ids from hi down to lo *)
Down(hi, lo) == [i \in 1..(hi - lo + 1) |-> hi + 1 - i]

(* C12: when process_channel has updated a channel, its known-id list is    *)
(* the first 50 entries of the latest ids in fetch order followed by the    *)
(* previously known ids that are not among the latest, in their previous    *)
(* order; from the 50 known ids 50..1 and the latest fetch <<51, 50>> the   *)
(* list becomes 51, 50, 49, ..., 2 and the id 1 is dropped.                 *)
C12_RollingWindow ==
    mon.updated =>
        LET result == KnownOf(state, mon.chan) IN
        /\ mon.cause # "save" => state_file = Written(state)
        /\ IsRollingWindow(result, mon.known0, mon.latest, 50)
        /\ (mon.known0 = Down(50, 1) /\ mon.latest = <<51, 50>>)
               => result = Down(51, 2)

C12_Witness ==
    /\ mon.updated
    /\ mon.known0 = Down(50, 1)
    /\ mon.latest = <<51, 50>>
    /\ state_file = Written(state)
    /\ Len(KnownOf(state_file.v, mon.chan)) = 50
    /\ 1 \notin Range(KnownOf(state_file.v, mon.chan))

Tracked ==
    IF state_file \in {NoFile, Truncated} THEN {}
    ELSE DOMAIN state_file.v.channels

(* C13: whatever was added and checked, with whatever limits and feeds,     *)
(* the known-id list of every tracked channel has at most 50 entries.       *)
C13_KnownAtMost50 ==
    \A c \in Tracked : Len(KnownOf(state_file.v, c)) <= 50

(* process_channel is at work on the channel mon.chan, or an error of one   *)
(* of its videos has ended it.                                              *)
InChannelRun ==
    \/ mon.pc = "videos"
    \/ mon.pc = "aborted" /\ mon.cause \in {"transcript", "analysis"}

(* C14: an id that was analysed in a check run whose state was saved is     *)
(* never sent to the analysis backend by a later run of that channel.       *)
C14_AnalysedAtMostOnce ==
    InChannelRun =>
        \A i \in 1..Len(mon.analysed) :
            mon.analysed[i] \notin saved_analysed[mon.chan]

(* C15: the failure of the transcript fetch or of the analysis of one video *)
(* never ends the run: no error of an item leaves process_channel with      *)
(* videos or channels unprocessed and the state unsaved.                    *)
C15_ItemFailureNeverAborts ==
    ~(mon.pc = "aborted" /\ mon.cause \in {"transcript", "analysis"})

(* C16: the ids process_channel sends to the transcript fetch are the       *)
(* fetched ids that are not in the known-id list the state file held when   *)
(* the run began, each such entry once, in the reverse of the fetch order;  *)
(* only these are analysed, and no known id is sent.                        *)
C16_NewOldestFirst ==
    InChannelRun =>
        LET known == KnownOf(state_file.v, mon.chan)
            new == SelectSeq(mon.latest, LAMBDA vid : vid \notin Range(known))
            n == Len(new)
        IN  /\ Len(mon.sent) <= n
            /\ \A i \in 1..Len(mon.sent) : mon.sent[i] = new[n + 1 - i]
            /\ mon.pc = "videos" => Len(mon.sent) + Len(mon.todo) = n
            /\ Range(mon.analysed) \subseteq Range(mon.sent)
            /\ Range(mon.sent) \cap Range(known) = {}

C16_Witness ==
    /\ InChannelRun
    /\ Len(mon.sent) >= 2
    /\ mon.sent[1] < mon.sent[2]
    /\ Range(mon.latest) \cap Range(KnownOf(state_file.v, mon.chan)) # {}
    /\ mon.todo = <<>>

NoRepeat(seq) == \A i, j \in 1..Len(seq) : seq[i] = seq[j] => i = j

(* C17: the known-id list of a tracked channel never holds an id twice,     *)
(* also when the fetched list of latest videos repeats an id.               *)
C17_KnownIdsDistinct ==
    \A c \in Tracked : NoRepeat(KnownOf(state_file.v, c))

(* C18: a video that was new and was skipped for its missing transcript in  *)
(* a check run that completed is in the known-id list from then on and has  *)
(* no entry in analyses; no later run takes it for new, fetches its         *)
(* transcript or analyses it.                                               *)
C18_SkippedStaysKnown ==
    \A c \in Tracked : \A vid \in saved_skipped[c] :
        /\ vid \in Range(KnownOf(state_file.v, c))
        /\ vid \notin DOMAIN state_file.v.channels[c].analyses
        /\ (InChannelRun /\ mon.chan = c) => vid \notin Range(mon.sent)

----------------------------------------------------------------------------
(* The value found under a key path, Missing when the path does not exist *)
Missing == [k |-> "missing"]
ValueAt(dict, path) ==
    IF KeyExistsIn(path, dict) THEN GetIn(path, dict) ELSE Missing

(* The places a commit to path must leave alone: the records of the other   *)
(* videos, the other categories of the video, the other languages of the    *)
(* category.                                                                *)
FramePaths(path) ==
    {<<v>> : v \in VideoIds \ {path[1]}}
    \cup {<<path[1], c>> : c \in Categories \ {path[2]}}
    \cup {<<path[1], path[2], l>> : l \in Languages \ {path[3]}}

SameOutside(before, after, path) ==
    \A p \in FramePaths(path) : ValueAt(after, p) = ValueAt(before, p)

(* C19: a tee that committed to (video_id, target_key, language) has left   *)
(* every other video's record, every other category of the video (its      *)
(* transcript among them) and every other language of the category with    *)
(* the value they had before, in the cache and, once the write is done, in  *)
(* the document; the utils.py function of the same name, which stores at    *)
(* (video_id, language), leaves every other video and every category of    *)
(* the video as they were.                                                  *)
C19_CommitFrame ==
    (tee.state \in {"done", "ioerror"} /\ tee.store) =>
        /\ SameOutside(tee.dict0, video_dict, TeePath)
        /\ tee.state = "done" =>
              /\ file.k = "doc"
              /\ SameOutside(JsonLoad(tee.file0.v), JsonLoad(file.v), TeePath)
              /\ HoldsAt(JsonLoad(file.v), TeePath, Concatenation(tee.src))
        /\ (tee.state = "ioerror" /\ file.k = "doc") => file = tee.file0
        /\ LET flat == CommitByLanguage(tee.dict0, tee.video_id, tee.language,
                                        Concatenation(tee.src))
           IN  /\ \A v \in VideoIds \ {tee.video_id} :
                     ValueAt(flat, <<v>>) = ValueAt(tee.dict0, <<v>>)
               /\ \A c \in Categories :
                     ValueAt(flat, <<tee.video_id, c>>)
                        = ValueAt(tee.dict0, <<tee.video_id, c>>)
               /\ ValueAt(flat, <<tee.video_id, tee.language>>)
                     = S(Concatenation(tee.src))

C19_Witness ==
    /\ tee.state = "done"
    /\ tee.store
    /\ TeePath = <<"v1", "summary", "German">>
    /\ tee.src = <<"Hel", "lo">>
    /\ ValueAt(tee.dict0, <<"v1", "summary", "English">>) = S("old")
    /\ ValueAt(tee.dict0, <<"v1", "stock_sentiment", "English">>) = S("old")
    /\ ValueAt(tee.dict0, <<"v2">>) = FreshRecord
    /\ ValueAt(tee.dict0, TeePath) = Missing
    /\ HoldsAt(video_dict, TeePath, "Hello")
    /\ ValueAt(JsonLoad(file.v), <<"v1", "summary", "English">>) = S("old")
    /\ ValueAt(JsonLoad(file.v), <<"v1", "transcript">>)
          = S("some transcript")
    /\ ValueAt(JsonLoad(file.v), <<"v2">>) = FreshRecord

====
